---------------------------- MODULE Spec2Model ----------------------------
(***************************************************************************)
(* Model of create_schemas.py: a one-shot provisioner that sends a fixed   *)
(* DDL text to four PostgreSQL databases through `docker exec ... psql`,   *)
(* one database after the other, and exits 1 at the first failure.         *)
(*                                                                         *)
(* The Python process is modelled statement by statement (pc), the child   *)
(* process started by subprocess.run is a message in flight (proc), and    *)
(* the databases are sets of schema objects changed by the DDL text.       *)
(* Strings the program builds (database names) are built here the same way *)
(* (prefix \o env).  Console lines are records [kind, db, text].           *)
(***************************************************************************)
EXTENDS Integers, Sequences, FiniteSets, TLC

VARIABLES
    pc,          \* position of the Python process in main()/execute_sql()
    i,           \* index of the current `env` in the running for-loop
    dbname,      \* local variable `db` of main()
    proc,        \* child processes started and not yet exited
    result,      \* CompletedProcess of the last subprocess.run
    success,     \* local variable `success` of main()
    output,      \* lines printed on stdout in this run
    exitStatus,  \* exit status of the Python process, -1 while it runs
    db,          \* schema objects of every database of the cluster
    roles,       \* roles of the cluster
    runs,        \* number of times the script has been started
    attempts,    \* history: databases handed to subprocess.run in this run
    codes,       \* history: return codes captured in this run
    dbAtStart,   \* history: db as it was when this run started
    okCount      \* history: successful applications per database, all runs

vars == <<pc, i, dbname, proc, result, success, output, exitStatus, db,
          roles, runs, attempts, codes, dbAtStart, okCount>>

\* How many times the operator starts the script.
MaxRuns == 2

-----------------------------------------------------------------------------
(* The DDL texts.  A statement is a record:                                *)
(*   op     DROP, CREATE, CREATE_OR_REPLACE, GRANT or COMMENT              *)
(*   kind   kind of the object the statement is about                      *)
(*   name   its name as written in the text                                *)
(*   on     the object it is attached to ("" when there is none)           *)
(*   guard  TRUE for IF EXISTS / IF NOT EXISTS                             *)
(*   arg    CASCADE, the grantee or the comment text                       *)

St(op, kind, name, on, guard, arg) ==
    [op |-> op, kind |-> kind, name |-> name, on |-> on, guard |-> guard,
     arg |-> arg]

\* Mutation: the text without its leading DROP TABLE IF EXISTS ... CASCADE.
FOOTBALL_SCHEMA_SQL_NoDrop ==
    << St("CREATE", "table", "raw_pl_matches", "", FALSE, ""),
       St("CREATE", "index", "idx_raw_pl_matches_date", "raw_pl_matches", FALSE, ""),
       St("CREATE", "index", "idx_raw_pl_matches_home", "raw_pl_matches", FALSE, ""),
       St("CREATE", "index", "idx_raw_pl_matches_away", "raw_pl_matches", FALSE, ""),
       St("CREATE", "index", "idx_raw_pl_matches_league", "raw_pl_matches", FALSE, "") >>

FOOTBALL_SCHEMA_SQL ==
    << St("DROP", "table", "raw_pl_matches", "", TRUE, "CASCADE"),
       St("CREATE", "table", "raw_pl_matches", "", FALSE, ""),
       St("CREATE", "index", "idx_raw_pl_matches_date", "raw_pl_matches", FALSE, ""),
       St("CREATE", "index", "idx_raw_pl_matches_home", "raw_pl_matches", FALSE, ""),
       St("CREATE", "index", "idx_raw_pl_matches_away", "raw_pl_matches", FALSE, ""),
       St("CREATE", "index", "idx_raw_pl_matches_league", "raw_pl_matches", FALSE, "") >>

HOUSING_SCHEMA_SQL ==
    << St("CREATE", "schema", "raw", "", TRUE, ""),
       St("CREATE", "schema", "staging", "", TRUE, ""),
       St("CREATE", "schema", "marts", "", TRUE, ""),
       St("GRANT", "schema", "raw", "raw", FALSE, "dataeng"),
       St("GRANT", "schema", "staging", "staging", FALSE, "dataeng"),
       St("GRANT", "schema", "marts", "marts", FALSE, "dataeng"),
       St("CREATE", "table", "raw.listings", "raw", TRUE, ""),
       St("CREATE", "index", "idx_raw_listings_scraped_at", "raw.listings", TRUE, ""),
       St("CREATE", "index", "idx_raw_listings_city", "raw.listings", TRUE, ""),
       St("CREATE", "index", "idx_raw_listings_province", "raw.listings", TRUE, ""),
       St("CREATE", "index", "idx_raw_listings_price", "raw.listings", TRUE, ""),
       St("CREATE", "index", "idx_raw_listings_url", "raw.listings", TRUE, ""),
       St("CREATE_OR_REPLACE", "view", "raw.listings_latest", "raw.listings", FALSE, ""),
       St("CREATE", "table", "staging.price_history", "staging", TRUE, ""),
       St("CREATE", "index", "idx_price_history_listing", "staging.price_history", TRUE, ""),
       St("COMMENT", "schema", "raw", "raw", FALSE,
          "Raw data as ingested from Imovirtual"),
       St("COMMENT", "schema", "staging", "staging", FALSE,
          "Intermediate transformations via dbt"),
       St("COMMENT", "schema", "marts", "marts", FALSE,
          "Final analytics-ready tables via dbt"),
       St("COMMENT", "table", "raw.listings", "raw.listings", FALSE,
          "All listing snapshots - one row per listing per scrape date"),
       St("COMMENT", "view", "raw.listings_latest", "raw.listings_latest", FALSE,
          "Latest snapshot of each listing") >>

-----------------------------------------------------------------------------
(* What psql does with a text.  A database is a set of objects             *)
(* [kind, name, on, arg].  Tables, indexes and views share one name space. *)

Obj(kind, name, on, arg) ==
    [kind |-> kind, name |-> name, on |-> on, arg |-> arg]

Relations == {"table", "index", "view"}

NameSpace(kind) == IF kind \in Relations THEN "relation" ELSE kind

\* The objects of s that carry this name in this name space.
Named(s, kind, name) ==
    {o \in s : o.name = name /\ NameSpace(o.kind) = NameSpace(kind)}

\* The messages psql writes on its standard error.
NoticeSkip       == "NOTICE: skipping"
ErrDuplicate     == "ERROR: already exists"
ErrMissing       == "ERROR: does not exist"
ErrRole          == "ERROR: role does not exist"
ErrConnection    == "psql: error: connection to server failed"
ErrContainer     == "Error response from daemon: No such container: postgres"

RECURSIVE Dependents(_, _)
\* Everything of s attached, directly or not, to one of the names.
Dependents(s, names) ==
    LET more == {o \in s : o.on \in names /\ o.name \notin names}
    IN  IF more = {} THEN {o \in s : o.on \in names}
        ELSE Dependents(s, names \cup {o.name : o \in more})

\* One statement on state s: [ok, state, msg] (msg "" when psql is silent).
ExecStatement(st, s, rl) ==
    LET present == Named(s, st.kind, st.name)
        base    == st.on = ""
                     \/ \E o \in s : o.name = st.on /\ o.kind \notin {"grant", "comment"}
        fail(m) == [ok |-> FALSE, state |-> s, msg |-> m]
        done(t) == [ok |-> TRUE, state |-> t, msg |-> ""]
        skip    == [ok |-> TRUE, state |-> s, msg |-> NoticeSkip]
    IN  CASE st.op = "DROP" ->
               IF present = {}
               THEN IF st.guard THEN skip ELSE fail(ErrMissing)
               ELSE done(s \ (present \cup Dependents(s, {st.name})))
          [] st.op = "CREATE" ->
               IF present # {}
               THEN IF st.guard THEN skip ELSE fail(ErrDuplicate)
               ELSE IF ~base THEN fail(ErrMissing)
               ELSE done(s \cup {Obj(st.kind, st.name, st.on, "")})
          [] st.op = "CREATE_OR_REPLACE" ->
               IF \E o \in present : o.kind # st.kind THEN fail(ErrDuplicate)
               ELSE IF ~base THEN fail(ErrMissing)
               ELSE done(s \cup {Obj(st.kind, st.name, st.on, "")})
          [] st.op = "GRANT" ->
               IF present = {} THEN fail(ErrMissing)
               ELSE IF st.arg \notin rl THEN fail(ErrRole)
               ELSE done(s \cup {Obj("grant", st.name, st.on, st.arg)})
          [] st.op = "COMMENT" ->
               IF {o \in present : o.kind = st.kind} = {} THEN fail(ErrMissing)
               ELSE done({o \in s : ~(o.kind = "comment" /\ o.on = st.on)}
                           \cup {Obj("comment", st.name, st.on, st.arg)})

RECURSIVE RunFrom(_, _, _, _, _)
\* Statements k.. of sql on state s; err collects psql's messages.
RunFrom(sql, k, s, rl, err) ==
    IF k > Len(sql) THEN [ok |-> TRUE, state |-> s, stderr |-> err]
    ELSE LET r == ExecStatement(sql[k], s, rl)
             e == IF r.msg = "" THEN err ELSE Append(err, r.msg)
         IN  IF r.ok THEN RunFrom(sql, k + 1, r.state, rl, e)
             ELSE [ok |-> FALSE, state |-> s, stderr |-> e]

\* psql -c sql: the whole text is one request, hence one transaction; an
\* error leaves the database as it was.
RunSql(sql, s, rl) ==
    LET r == RunFrom(sql, 1, s, rl, <<>>)
    IN  IF r.ok THEN r ELSE [r EXCEPT !.state = s]

-----------------------------------------------------------------------------
(* main() and execute_sql().                                               *)

\* Mutation: the environments in the other order.
FootballEnvs_Reversed == <<"prod", "dev">>

FootballEnvs == <<"dev", "prod">>

\* Mutation: a third environment.
HousingEnvs_Three == <<"dev", "staging", "prod">>

HousingEnvs == <<"dev", "prod">>

FootballDb(env) == "football_data_" \o env

\* Mutation: the name built from the dataset's own name.
HousingDb_Convention(env) == "housing_" \o env

HousingDb(env) == "portugal_houses_" \o env

Range(f) == {f[k] : k \in DOMAIN f}

\* The databases of the cluster and the text each one is provisioned with.
Databases ==
    {FootballDb(e) : e \in Range(FootballEnvs)}
        \cup {HousingDb(e) : e \in Range(HousingEnvs)}

IsFootball(d) == d \in {FootballDb(e) : e \in Range(FootballEnvs)}

SqlOf(d) == IF IsFootball(d) THEN FOOTBALL_SCHEMA_SQL ELSE HOUSING_SCHEMA_SQL

Empty == {}

\* A database after one application of the text to an empty database.
Provisioned(sql) == RunSql(sql, Empty, {"postgres", "dataeng"}).state

Line(kind, d, text) == [kind |-> kind, db |-> d, text |-> text]

NoResult == [returncode |-> -1, stderr |-> <<>>]

Init ==
    /\ pc = "main"
    /\ i = 1
    /\ dbname = ""
    /\ proc = <<>>
    /\ result = NoResult
    /\ success = FALSE
    /\ output = <<>>
    /\ exitStatus = -1
    /\ roles \in {{"postgres"}, {"postgres", "dataeng"}}
    /\ db \in [Databases -> {Empty, Provisioned(FOOTBALL_SCHEMA_SQL),
                              Provisioned(HOUSING_SCHEMA_SQL)}]
    /\ \A d \in Databases :
          /\ db[d] \in {Empty, Provisioned(SqlOf(d))}
          /\ (~IsFootball(d) /\ db[d] # Empty) => "dataeng" \in roles
    /\ runs = 1
    /\ attempts = <<>>
    /\ codes = <<>>
    /\ dbAtStart = db
    /\ okCount = [d \in Databases |-> 0]

\* Lines 138-141: the banner and the first group header.
MainStart ==
    /\ pc = "main"
    /\ output' = <<Line("banner", "", <<>>), Line("header", "", <<"Football Data">>)>>
    /\ i' = 1
    /\ pc' = "fb_for"
    /\ UNCHANGED <<dbname, proc, result, success, exitStatus, db, roles, runs,
                   attempts, codes, dbAtStart, okCount>>

\* One iteration up to the call of subprocess.run: build the name, print
\* the progress line, start the child process and block on it.
ForNext(at, name, sql, run) ==
    /\ pc = at
    /\ dbname' = name
    /\ output' = Append(output, Line("creating", dbname', <<>>))
    /\ proc' = Append(proc, [database |-> dbname', sql |-> sql])
    /\ attempts' = Append(attempts, dbname')
    /\ pc' = run
    /\ UNCHANGED <<i, result, success, exitStatus, db, roles, runs, codes,
                   dbAtStart, okCount>>

\* subprocess.run cannot start `docker` (OSError): the exception leaves
\* main() uncaught, the interpreter prints a traceback on stderr and exits 1.
ForRaise(at, name) ==
    /\ pc = at
    /\ dbname' = name
    /\ output' = Append(output, Line("creating", dbname', <<>>))
    /\ attempts' = Append(attempts, dbname')
    /\ exitStatus' = 1
    /\ pc' = "exited"
    /\ UNCHANGED <<i, proc, result, success, db, roles, runs, codes,
                   dbAtStart, okCount>>

\* What the child process does and how it exits: psql runs the text, or
\* cannot connect (exit 2), or docker finds no container (exit 1).
Outcome(cmd, how) ==
    IF how = "psql" /\ cmd.database \in DOMAIN db
    THEN LET r == RunSql(cmd.sql, db[cmd.database], roles)
         IN  [returncode |-> IF r.ok THEN 0 ELSE 1, stderr |-> r.stderr,
              state |-> r.state]
    ELSE IF how = "docker"
    THEN [returncode |-> 1, stderr |-> <<ErrContainer>>, state |-> Empty]
    ELSE [returncode |-> 2, stderr |-> <<ErrConnection>>, state |-> Empty]

\* The child process exits and subprocess.run returns its CompletedProcess.
ProcessExit(at, ret) ==
    /\ pc = at
    /\ proc # <<>>
    /\ \E how \in {"psql", "connection", "docker"} :
          LET cmd == Head(proc)
              o   == Outcome(cmd, how)
          IN  /\ result' = [returncode |-> o.returncode, stderr |-> o.stderr]
              /\ codes' = Append(codes, o.returncode)
              /\ IF o.returncode = 0
                 THEN /\ db' = [db EXCEPT ![cmd.database] = o.state]
                      /\ okCount' = [okCount EXCEPT ![cmd.database] = @ + 1]
                 ELSE UNCHANGED <<db, okCount>>
    /\ proc' = Tail(proc)
    /\ pc' = ret
    /\ UNCHANGED <<i, dbname, success, output, exitStatus, roles, runs,
                   attempts, dbAtStart>>

\* Mutation: `if result.stderr:` in place of `if result.returncode != 0:`.
ExecuteSqlReturn_Stderr(at, next) ==
    /\ pc = at
    /\ IF result.stderr # <<>>
       THEN /\ output' = Append(output, Line("error", dbname, result.stderr))
            /\ success' = FALSE
       ELSE /\ success' = TRUE
            /\ UNCHANGED output
    /\ pc' = next
    /\ UNCHANGED <<i, dbname, proc, result, exitStatus, db, roles, runs,
                   attempts, codes, dbAtStart, okCount>>

\* Lines 130-133 of execute_sql, and the assignment to `success`.
ExecuteSqlReturn(at, next) ==
    /\ pc = at
    /\ IF result.returncode # 0
       THEN /\ output' = Append(output, Line("error", dbname, result.stderr))
            /\ success' = FALSE
       ELSE /\ success' = TRUE
            /\ UNCHANGED output
    /\ pc' = next
    /\ UNCHANGED <<i, dbname, proc, result, exitStatus, db, roles, runs,
                   attempts, codes, dbAtStart, okCount>>

\* Mutation: the else branch without sys.exit(1); the loop goes on.
IfSuccess_NoExit(at, loop) ==
    /\ pc = at
    /\ output' = Append(output, Line(IF success THEN "created" ELSE "failed",
                                     dbname, <<>>))
    /\ i' = i + 1
    /\ pc' = loop
    /\ UNCHANGED <<dbname, proc, result, success, exitStatus, db, roles, runs,
                   attempts, codes, dbAtStart, okCount>>

\* Mutation: `return` in place of sys.exit(1); the process exits 0.
IfSuccess_Return(at, loop) ==
    /\ pc = at
    /\ IF success
       THEN /\ output' = Append(output, Line("created", dbname, <<>>))
            /\ i' = i + 1
            /\ pc' = loop
            /\ UNCHANGED exitStatus
       ELSE /\ output' = Append(output, Line("failed", dbname, <<>>))
            /\ exitStatus' = 0
            /\ pc' = "exited"
            /\ UNCHANGED i
    /\ UNCHANGED <<dbname, proc, result, success, db, roles, runs, attempts,
                   codes, dbAtStart, okCount>>

\* Mutation: a failed target is tried once more before the run gives up.
IfSuccess_Retry(at, loop) ==
    /\ pc = at
    /\ IF success
       THEN /\ output' = Append(output, Line("created", dbname, <<>>))
            /\ i' = i + 1
            /\ pc' = loop
            /\ UNCHANGED exitStatus
       ELSE /\ output' = Append(output, Line("failed", dbname, <<>>))
            /\ IF Cardinality({k \in 1..Len(attempts) : attempts[k] = dbname}) < 2
               THEN pc' = loop /\ UNCHANGED exitStatus
               ELSE pc' = "exited" /\ exitStatus' = 1
            /\ UNCHANGED i
    /\ UNCHANGED <<dbname, proc, result, success, db, roles, runs, attempts,
                   codes, dbAtStart, okCount>>

\* The if/else of the loop body: confirm and go on, or report and exit 1.
IfSuccess(at, loop) ==
    /\ pc = at
    /\ IF success
       THEN /\ output' = Append(output, Line("created", dbname, <<>>))
            /\ i' = i + 1
            /\ pc' = loop
            /\ UNCHANGED exitStatus
       ELSE /\ output' = Append(output, Line("failed", dbname, <<>>))
            /\ exitStatus' = 1
            /\ pc' = "exited"
            /\ UNCHANGED i
    /\ UNCHANGED <<dbname, proc, result, success, db, roles, runs, attempts,
                   codes, dbAtStart, okCount>>

\* Mutation: the child process is started and not waited for.
FootballNext_NoWait ==
    /\ pc = "fb_for"
    /\ i <= Len(FootballEnvs)
    /\ dbname' = FootballDb(FootballEnvs[i])
    /\ output' = Append(output, Line("creating", dbname', <<>>))
    /\ proc' = Append(proc, [database |-> dbname', sql |-> FOOTBALL_SCHEMA_SQL])
    /\ attempts' = Append(attempts, dbname')
    /\ i' = i + 1
    /\ pc' = "fb_for"
    /\ UNCHANGED <<result, success, exitStatus, db, roles, runs, codes,
                   dbAtStart, okCount>>

FootballNext ==
    /\ i <= Len(FootballEnvs)
    /\ ForNext("fb_for", FootballDb(FootballEnvs[i]), FOOTBALL_SCHEMA_SQL, "fb_run")

FootballRaise ==
    /\ i <= Len(FootballEnvs)
    /\ ForRaise("fb_for", FootballDb(FootballEnvs[i]))

FootballExit == ProcessExit("fb_run", "fb_ret")

FootballReturn == ExecuteSqlReturn("fb_ret", "fb_if")

FootballIf == IfSuccess("fb_if", "fb_for")

\* The football loop is exhausted: line 153 prints the second group header.
FootballDone ==
    /\ pc = "fb_for"
    /\ i > Len(FootballEnvs)
    /\ output' = Append(output, Line("header", "", <<"Housing Market">>))
    /\ i' = 1
    /\ pc' = "hs_for"
    /\ UNCHANGED <<dbname, proc, result, success, exitStatus, db, roles, runs,
                   attempts, codes, dbAtStart, okCount>>

HousingNext ==
    /\ i <= Len(HousingEnvs)
    /\ ForNext("hs_for", HousingDb(HousingEnvs[i]), HOUSING_SCHEMA_SQL, "hs_run")

HousingRaise ==
    /\ i <= Len(HousingEnvs)
    /\ ForRaise("hs_for", HousingDb(HousingEnvs[i]))

HousingExit == ProcessExit("hs_run", "hs_ret")

HousingReturn == ExecuteSqlReturn("hs_ret", "hs_if")

HousingIf == IfSuccess("hs_if", "hs_for")

\* Mutation: the whole pass is wrapped in a loop that starts over.
HousingDone_Loop ==
    /\ pc = "hs_for"
    /\ i > Len(HousingEnvs)
    /\ output' = Append(output, Line("all_created", "", <<>>))
    /\ i' = 1
    /\ pc' = "fb_for"
    /\ UNCHANGED <<dbname, proc, result, success, exitStatus, db, roles, runs,
                   attempts, codes, dbAtStart, okCount>>

\* The housing loop is exhausted: line 164, then main() returns (exit 0).
HousingDone ==
    /\ pc = "hs_for"
    /\ i > Len(HousingEnvs)
    /\ output' = Append(output, Line("all_created", "", <<>>))
    /\ exitStatus' = 0
    /\ pc' = "exited"
    /\ UNCHANGED <<i, dbname, proc, result, success, db, roles, runs,
                   attempts, codes, dbAtStart, okCount>>

\* The operator starts the script again; the databases keep their state.
Rerun ==
    /\ pc = "exited"
    /\ runs < MaxRuns
    /\ runs' = runs + 1
    /\ pc' = "main"
    /\ i' = 1
    /\ dbname' = ""
    /\ result' = NoResult
    /\ success' = FALSE
    /\ output' = <<>>
    /\ exitStatus' = -1
    /\ attempts' = <<>>
    /\ codes' = <<>>
    /\ dbAtStart' = db
    /\ UNCHANGED <<proc, db, roles, okCount>>

\* The steps of the Python process itself.
Program ==
    \/ MainStart
    \/ FootballNext
    \/ FootballRaise
    \/ FootballReturn
    \/ FootballIf
    \/ FootballDone
    \/ HousingNext
    \/ HousingRaise
    \/ HousingReturn
    \/ HousingIf
    \/ HousingDone

Next ==
    \/ MainStart
    \/ FootballNext
    \/ FootballRaise
    \/ FootballExit
    \/ FootballReturn
    \/ FootballIf
    \/ FootballDone
    \/ HousingNext
    \/ HousingRaise
    \/ HousingExit
    \/ HousingReturn
    \/ HousingIf
    \/ HousingDone
    \/ Rerun

Spec == Init /\ [][Next]_vars

\* The external process is not obliged to exit; the Python process always
\* takes its next step when it has one.
LiveSpec == Spec /\ WF_vars(Program)

-----------------------------------------------------------------------------
(* Properties.                                                             *)

\* The four targets in declared order: football dev, football prod,
\* housing dev, housing prod.
Order ==
    <<"football_data_dev", "football_data_prod",
      "portugal_houses_dev", "portugal_houses_prod">>

IsPrefix(s, t) ==
    /\ Len(s) <= Len(t)
    /\ \A k \in 1..Len(s) : s[k] = t[k]

Printed(l) == \E k \in 1..Len(output) : output[k] = l

Failed(k) == k \in 1..Len(codes) /\ codes[k] # 0

AllSucceeded == Len(codes) = Len(Order) /\ \A k \in 1..Len(codes) : codes[k] = 0

\* C1 - abort on first failure: once the invocation for the k-th target has
\* reported failure, the attempted targets are exactly the first k of the
\* declared order, and every later target's database is as it was when the
\* run started.
C1_AbortOnFirstFailure ==
    \A k \in 1..Len(codes) :
        codes[k] # 0 =>
            /\ Len(attempts) = k
            /\ IsPrefix(attempts, Order)
            /\ \A j \in (k + 1)..Len(Order) : db[Order[j]] = dbAtStart[Order[j]]

\* football prod failed after football dev succeeded, and the run is over.
C1_Witness ==
    /\ pc = "exited"
    /\ Len(codes) = 2
    /\ codes[1] = 0
    /\ codes[2] # 0

\* C2 - exit status: the process has an exit status only once it has exited;
\* the status is 0 exactly when all four invocations returned 0; when an
\* invocation returned nonzero the status is 1 and the last line printed is
\* the failure line naming that target.
C2_ExitStatus ==
    /\ (exitStatus # -1) <=> (pc = "exited")
    /\ pc = "exited" =>
          /\ exitStatus \in {0, 1}
          /\ (exitStatus = 0) <=> AllSucceeded
          /\ \A k \in 1..Len(codes) :
                codes[k] # 0 =>
                    /\ exitStatus = 1
                    /\ output[Len(output)] = Line("failed", Order[k], <<>>)

\* housing dev failed: exit status 1.
C2_Witness ==
    /\ pc = "exited"
    /\ exitStatus = 1
    /\ Failed(3)

Created == SelectSeq(output, LAMBDA l : l.kind = "created")

Finals == SelectSeq(output, LAMBDA l : l.kind = "all_created")

\* C3 - deterministic order: the attempted targets are always a prefix of
\* the declared order; a run where all four succeeded has printed the four
\* confirmation lines in that order and then, last, the one final success
\* line; a run where a target failed never prints the final success line.
C3_DeterministicOrder ==
    /\ IsPrefix(attempts, Order)
    /\ IsPrefix([k \in 1..Len(Created) |-> Created[k].db], Order)
    /\ (pc = "exited" /\ AllSucceeded) =>
          /\ Created = [k \in 1..Len(Order) |-> Line("created", Order[k], <<>>)]
          /\ Finals = <<Line("all_created", "", <<>>)>>
          /\ output[Len(output)] = Line("all_created", "", <<>>)
    /\ (exitStatus = 1 \/ \E k \in 1..Len(codes) : codes[k] # 0) => Finals = <<>>

\* all four succeeded and the output is complete.
C3_Witness ==
    /\ pc = "exited"
    /\ AllSucceeded
    /\ Len(Created) = 4
    /\ Len(Finals) = 1

\* C4 - idempotence of the DDL texts: a database the text has been applied
\* to holds exactly the objects one application to an empty database
\* leaves, however many times it was applied and whether it started empty
\* or provisioned; and no application ever fails on the text itself (a
\* duplicate or a missing object): psql fails only when the environment
\* does (no connection, no container, no role dataeng).
C4_Idempotent ==
    /\ \A d \in Databases :
          okCount[d] > 0 => db[d] = Provisioned(SqlOf(d))
    /\ result.returncode > 0 =>
          /\ result.stderr # <<>>
          /\ result.stderr[Len(result.stderr)] \in {ErrConnection, ErrContainer, ErrRole}
          /\ result.stderr[Len(result.stderr)] = ErrRole => "dataeng" \notin roles
    /\ \A d \in Databases :
          LET once  == RunSql(SqlOf(d), db[d], roles \cup {"dataeng"})
              twice == RunSql(SqlOf(d), once.state, roles \cup {"dataeng"})
          IN  once.ok /\ twice.ok /\ twice.state = once.state

\* each text has been applied twice in succession to the same database.
C4_Witness ==
    /\ okCount["football_data_dev"] = 2
    /\ okCount["portugal_houses_dev"] = 2

\* C5 - strictly sequential: at most one child process is in flight, and a
\* child process is started only when none is in flight, every earlier one
\* has had its return code captured, and the preceding target's
\* confirmation line has been printed.
C5_Sequential ==
    /\ [](Len(proc) <= 1)
    /\ [](proc # <<>> => Len(codes) = Len(attempts) - 1)
    /\ [][Len(attempts') > Len(attempts) =>
            /\ proc = <<>>
            /\ Len(codes) = Len(attempts)
            /\ Len(attempts) > 0 =>
                  /\ success
                  /\ output[Len(output)].kind \in {"created", "header"}
                  /\ Printed(Line("created", attempts[Len(attempts)], <<>>))]_vars

\* the second invocation is in flight after the first has completed.
C5_Witness ==
    /\ Len(proc) = 1
    /\ Len(attempts) = 2
    /\ Len(codes) = 1

\* C6 - executor outcome: when execute_sql has returned, its result is
\* success exactly when the return code is 0; for a nonzero code the line
\* just printed is the diagnostic naming the database that was passed and
\* carrying the captured standard error; for code 0 nothing was printed,
\* whatever the standard error holds.
C6_ExecutorOutcome ==
    pc \in {"fb_if", "hs_if"} =>
        /\ success <=> (result.returncode = 0)
        /\ result.returncode # 0 =>
              output[Len(output)] = Line("error", attempts[Len(attempts)], result.stderr)
        /\ result.returncode = 0 =>
              output[Len(output)] = Line("creating", attempts[Len(attempts)], <<>>)

\* psql exited 0 with notices on its standard error: success all the same.
C6_Witness ==
    /\ pc = "fb_if"
    /\ result.returncode = 0
    /\ result.stderr # <<>>
    /\ success

NoDuplicates(s) == \A j, k \in 1..Len(s) : s[j] = s[k] => j = k

\* C7 - no retry, no rollback: no database is handed to subprocess.run
\* twice in a run; a database changes only in the step that completes its
\* own invocation; and a target whose invocation succeeded keeps the
\* provisioned state for the rest of the run, also when the run aborts.
C7_NoRetryNoRollback ==
    /\ [](NoDuplicates(attempts))
    /\ [](\A k \in 1..Len(codes) :
            codes[k] = 0 => db[attempts[k]] = Provisioned(SqlOf(attempts[k])))
    /\ [][\A d \in Databases :
            db'[d] # db[d] =>
                /\ proc # <<>>
                /\ Head(proc).database = d
                /\ proc' = <<>>
                /\ d = attempts[Len(attempts)]]_vars

\* football dev was provisioned from empty, a later target failed, the run
\* has aborted and football dev is still provisioned.
C7_Witness ==
    /\ pc = "exited"
    /\ Failed(3)
    /\ dbAtStart[Order[1]] = Empty
    /\ db[Order[1]] # Empty

\* The naming convention {dataset}_{env}.
Convention(dataset, env) == dataset \o "_" \o env

Tags == <<"dev", "prod", "dev", "prod">>

\* C8 as stated - football's targets use the prefix football_data and
\* housing's targets are {dataset}_{env}, that is housing_dev, housing_prod.
C8_Original ==
    \A k \in 1..Len(attempts) :
        attempts[k] = IF k <= 2 THEN Convention("football_data", Tags[k])
                      ELSE Convention("housing", Tags[k])

\* C8 - target naming, amended: each target is a fixed prefix, an
\* underscore and the environment tag; the prefix is football_data for the
\* football dataset and portugal_houses for the housing dataset.
C8_TargetNaming ==
    /\ \A k \in 1..Len(attempts) :
          attempts[k] = IF k <= 2 THEN Convention("football_data", Tags[k])
                        ELSE Convention("portugal_houses", Tags[k])
    /\ proc # <<>> => Head(proc).database = attempts[Len(attempts)]

\* all four names have been built.
C8_Witness ==
    /\ Len(attempts) = 4
    /\ dbname = "portugal_houses_prod"

\* C9 as stated - a run where every target succeeds performs eight
\* invocations.
C9_Original ==
    (pc = "exited" /\ exitStatus = 0) => Len(attempts) = 8

\* C9 - number of targets, amended: a run that exits with status 0 has
\* performed exactly four invocations, one per distinct database, and never
\* does a run perform more than four.
C9_FourTargets ==
    /\ Len(attempts) <= 4
    /\ (pc = "exited" /\ exitStatus = 0) =>
          /\ Len(attempts) = 4
          /\ Len(codes) = 4
          /\ Cardinality({attempts[k] : k \in 1..Len(attempts)}) = 4

\* a second run has exited with status 0.
C9_Witness ==
    /\ runs = 2
    /\ pc = "exited"
    /\ exitStatus = 0
    /\ Len(attempts) = 4

\* C10 - termination: if every child process that is started eventually
\* exits, every run eventually exits, and it never makes more than four
\* invocations; while a child process is in flight the run neither exits
\* nor starts another invocation, so a child process that never exits
\* blocks the run for ever.
C10_Termination ==
    /\ ((proc # <<>>) ~> (proc = <<>>)) => [](pc # "exited" => <>(pc = "exited"))
    /\ [](Len(attempts) <= 4)
    /\ [](proc # <<>> => pc # "exited" /\ exitStatus = -1)
    /\ [][proc # <<>> => attempts' = attempts /\ pc' # "exited"]_vars

\* a run that made all four invocations and ended on the last one's failure.
C10_Witness ==
    /\ pc = "exited"
    /\ Len(attempts) = 4
    /\ Failed(4)

=============================================================================
